---- MODULE Spec2Model ----
(***************************************************************************)
(* B2bHolidays: the hotel request validator (processors/xml_processor.py), *)
(* the request dispatcher (services/services.py with the api/ stubs) and   *)
(* the pricing converter (processors/response_converter.py).               *)
(*                                                                         *)
(* Conventions.  Python None is the string None.  A dict is a function     *)
(* whose DOMAIN is its key set ("k" \in DOMAIN d is `"k" in d`).  The      *)
(* parsed XML tree self.root is the record `root` of what findtext /       *)
(* findall return for the paths the validator reads.  A date text is a     *)
(* record (kind, d, m, y); strptime is strptime_raises with ToOrdinal.      *)
(* Decimal values are integers in a fixed unit: net prices in thousandths, *)
(* markups in whole percents, table rates, emitted prices and emitted      *)
(* rates in hundredths.  The arithmetic is exact (the inputs drawn here    *)
(* stay far from the 28-digit precision of the decimal context).           *)
(*                                                                         *)
(* A behaviour is one call: HotelEngine.process on a well-formed document  *)
(* (InitRequest); PricingResponseConverter constructed and called on its   *)
(* own with any target, rate table and batch (InitConverter); one of the   *)
(* classmethods process_request and process_response of                   *)
(* HotelSearchProcessor called on its own (InitProcessRequest,             *)
(* InitProcessResponse); or parse_xml with the request type xml_to_json    *)
(* on a well-formed document (InitMapper).                                 *)
(***************************************************************************)
EXTENDS Integers, Sequences, FiniteSets, TLC

VARIABLES
    root,          \* the parsed request document (XmlProcessor.root)
    today,         \* what datetime.today() returns: (ordinal day, time of day)
    pc,            \* the position of the call in progress
    data,          \* XmlProcessor.data
    errors,        \* XmlProcessor.errors
    exc,           \* the exception in flight or caught: (type, at)
    result,        \* what parse_xml returned
    calls,         \* the stages invoked so far, in order
    response_obj,  \* the search response, converted in place
    search_req_data, \* the request handed to the login and search stubs
    ctor_args,     \* the arguments PricingResponseConverter is constructed with
    converter,     \* the PricingResponseConverter: (target_currency, exchange_rates)
    idx,           \* the hotel the loop of convert is at
    outcome        \* how the top-level call ended

validator == <<root, today, data, errors, result>>
pricing == <<response_obj, ctor_args, converter, idx>>
vars == <<root, today, pc, data, errors, exc, result, calls, search_req_data,
          response_obj, ctor_args, converter, idx, outcome>>

(***************************************************************************)
(* Bounds of the explored inputs.                                          *)
(***************************************************************************)
MaxParameters == 2
MaxDestinations == 6
MaxRooms == 6
MaxPax == 5

None == "None"

EmptyDict == <<>>

\* dict[key] = value
Put(d, key, value) == (key :> value) @@ d

Truthy(s) == s # None /\ s # ""

(***************************************************************************)
(* str.isdigit() and int() on the texts the inputs are drawn from.         *)
(* "<U+00B2>" is the one-character string SUPERSCRIPT TWO: a digit for     *)
(* str.isdigit(), not a decimal for int().                                 *)
(***************************************************************************)
DecimalValue ==
    ("0" :> 0) @@ ("3" :> 3) @@ ("5" :> 5) @@ ("7" :> 7) @@ ("25" :> 25)
    @@ ("50" :> 50) @@ ("51" :> 51) @@ ("123" :> 123) @@ ("25000" :> 25000)

NonDecimalDigits == {"<U+00B2>"}

isdigit(s) == s \in (DOMAIN DecimalValue) \cup NonDecimalDigits

\* int(s): the value, or ValueError
int(s) ==
    IF s \in DOMAIN DecimalValue
    THEN [raised |-> None, value |-> DecimalValue[s]]
    ELSE [raised |-> "ValueError", value |-> 0]

(***************************************************************************)
(* XmlProcessor                                                            *)
(***************************************************************************)
DEFAULTS ==
    [languageCode |-> "en", optionsQuota |-> 20, Currency |-> "EUR",
     Nationality |-> "US", Market |-> "ES"]

VALID_VALUES ==
    [languageCode |-> {"en", "fr", "de", "es"},
     Currency |-> {"EUR", "USD", "GBP"},
     Nationality |-> {"US", "GB", "CA"},
     Market |-> {"US", "GB", "CA", "ES"}]

\* the order in which VALID_VALUES.items() yields the fields
VALID_VALUES_ORDER == <<"languageCode", "Currency", "Nationality", "Market">>

allowed_room_count == 5
allowed_room_guest_count == 4
allowed_child_count_per_room == 2

Min(a, b) == IF a < b THEN a ELSE b

\* root.findtext(xpath, default)
findtext(doc, field, default) == IF doc[field] = None THEN default ELSE doc[field]

_get_validated_field(doc, field, valid_values, default_key) ==
    LET value == findtext(doc, field, DEFAULTS[default_key])
    IN  IF value \in valid_values THEN value ELSE DEFAULTS[default_key]

\* max_value 0 stands for None: both are falsy in `if max_value`
_parse_integer(doc, field, default, max_value) ==
    LET value == findtext(doc, field, None)
    IN  IF Truthy(value) /\ isdigit(value)
        THEN LET parsed == int(value)
             IN  IF parsed.raised # None THEN parsed
                 ELSE [raised |-> None,
                       value |-> IF max_value # 0 THEN Min(parsed.value, max_value)
                                 ELSE parsed.value]
        ELSE [raised |-> None, value |-> default]

\* self._parse_text_list(xpath)
_parse_text_list(doc, field) == doc[field]

(***************************************************************************)
(* datetime.strptime(text, "%d/%m/%Y") and date arithmetic.                *)
(***************************************************************************)
IsLeap(y) == (y % 4 = 0 /\ y % 100 # 0) \/ y % 400 = 0

DaysInMonth(m, y) ==
    IF m = 2 THEN (IF IsLeap(y) THEN 29 ELSE 28)
    ELSE IF m \in {4, 6, 9, 11} THEN 30 ELSE 31

RECURSIVE DaysBeforeMonth(_, _)
DaysBeforeMonth(m, y) ==
    IF m = 1 THEN 0 ELSE DaysBeforeMonth(m - 1, y) + DaysInMonth(m - 1, y)

\* date.toordinal(): days since 01/01/0001
ToOrdinal(d, m, y) ==
    365 * (y - 1) + ((y - 1) \div 4) - ((y - 1) \div 100) + ((y - 1) \div 400)
    + DaysBeforeMonth(m, y) + d

\* the outcome of strptime: None (parsed), "TypeError" (argument is None) or
\* "ValueError" (text does not match the format or is no calendar date)
strptime_raises(text) ==
    IF text.kind = "absent" THEN "TypeError"
    ELSE IF text.kind # "dmy" THEN "ValueError"
    ELSE IF text.m \in 1..12 /\ text.d \in 1..DaysInMonth(text.m, text.y) THEN None
    ELSE "ValueError"

\* the parsed datetime, at midnight: (ordinal day, time of day)
strptime(text) == [day |-> ToOrdinal(text.d, text.m, text.y), tod |-> 0]

\* datetime < datetime
DatetimeLess(a, b) == a.day < b.day \/ (a.day = b.day /\ a.tod < b.tod)

\* start_date < datetime.today() + timedelta(days=2)
StartTooEarly(start_date, now) ==
    DatetimeLess(start_date, [day |-> now.day + 2, tod |-> now.tod])

\* (end_date - start_date).days < 3
StayTooShort(start_date, end_date) == end_date.day - start_date.day < 3

Err(msg) == [msg |-> msg, args |-> <<>>]

_validate_dates(doc, now, self) ==
    LET start_date_str == doc.StartDate
        end_date_str == doc.EndDate
        r1 == strptime_raises(start_date_str)
        r2 == strptime_raises(end_date_str)
        raised == IF r1 # None THEN r1 ELSE r2
    IN  IF raised = "ValueError"
        THEN [data |-> self.data, raised |-> None,
              errors |-> Append(self.errors, Err("Invalid date format, expected DD/MM/YYYY."))]
        ELSE IF raised # None
        THEN [data |-> self.data, errors |-> self.errors, raised |-> raised]
        ELSE LET start_date == strptime(start_date_str)
                 end_date == strptime(end_date_str)
                 e1 == IF StartTooEarly(start_date, now)
                       THEN <<Err("StartDate must be at least 2 days after today.")>>
                       ELSE <<>>
                 e2 == IF StayTooShort(start_date, end_date)
                       THEN <<Err("Stay duration must be at least 3 nights.")>>
                       ELSE <<>>
             IN  [data |-> Put(Put(self.data, "StartDate", start_date_str),
                               "EndDate", end_date_str),
                  errors |-> self.errors \o e1 \o e2,
                  raised |-> None]

\* self._build_response()
_build_response(self) ==
    IF self.errors # <<>>
    THEN ("status" :> "error") @@ ("errors" :> self.errors)
    ELSE ("status" :> "success") @@ ("data" :> self.data)

(***************************************************************************)
(* HotelRequestProcessor                                                   *)
(***************************************************************************)
required_fields == <<"password", "username", "CompanyID">>

missing_fields_NoFormatCheck(param_data) ==
    LET Empty(field) == ~Truthy(param_data[field])
    IN  SelectSeq(required_fields, Empty)

\* the missing_fields list of one Parameter entry (lines 266-270)
missing_fields(param_data) ==
    LET Empty(field) == ~Truthy(param_data[field])
    IN  SelectSeq(required_fields, Empty)
        \o (IF ~Truthy(param_data["CompanyID"]) \/ ~isdigit(param_data["CompanyID"])
            THEN <<"CompanyID (invalid format)">>
            ELSE <<>>)

\* the errors the loop over the Parameter entries appends (lines 265-272)
RECURSIVE ParameterErrors(_)
ParameterErrors(parameters) ==
    IF parameters = <<>> THEN <<>>
    ELSE LET missing == missing_fields(Head(parameters))
         IN  (IF missing # <<>>
              THEN <<[msg |-> "Missing or invalid required parameters", args |-> missing]>>
              ELSE <<>>)
             \o ParameterErrors(Tail(parameters))

_validate_required_parameters(doc, self) ==
    LET data0 == Put(self.data, "Configuration", [Parameters |-> [Parameter |-> <<>>]])
        parameters == doc.Parameter
    IN  IF parameters = <<>>
        THEN [data |-> data0, raised |-> None,
              errors |-> Append(self.errors, Err("Missing required parameters in Configuration."))]
        ELSE [data |-> Put(self.data, "Configuration",
                           [Parameters |-> [Parameter |-> parameters]]),
              errors |-> self.errors \o ParameterErrors(parameters),
              raised |-> None]

DestinationErrors_SingleAtMostOne(search_type, destinations) ==
    IF search_type = "Single" /\ Len(destinations) > 1
    THEN <<Err("Single SearchType must have exactly one destination.")>>
    ELSE IF search_type = "Multiple" /\ Len(destinations) > allowed_room_count
    THEN <<Err("Multiple SearchType can have at most 5 destinations.")>>
    ELSE <<>>

\* lines 287-290
DestinationErrors(search_type, destinations) ==
    IF search_type = "Single" /\ Len(destinations) # 1
    THEN <<Err("Single SearchType must have exactly one destination.")>>
    ELSE IF search_type = "Multiple" /\ Len(destinations) > allowed_room_count
    THEN <<Err("Multiple SearchType can have at most 5 destinations.")>>
    ELSE <<>>

_validate_search_type_and_destinations_AlwaysRecord(doc, self) ==
    LET search_type == findtext(doc, "SearchType", None)
        destinations == _parse_text_list(doc, "Destination")
    IN  IF search_type \notin {"Single", "Multiple"}
        THEN [data |-> Put(self.data, "AvailDestinations", destinations), raised |-> None,
              errors |-> Append(self.errors,
                                Err("Invalid SearchType. Must be 'Single' or 'Multiple'."))]
        ELSE [data |-> Put(Put(self.data, "SearchType", search_type),
                           "AvailDestinations", destinations),
              errors |-> self.errors \o DestinationErrors(search_type, destinations),
              raised |-> None]

_validate_search_type_and_destinations(doc, self) ==
    LET search_type == findtext(doc, "SearchType", None)
    IN  IF search_type \notin {"Single", "Multiple"}
        THEN [data |-> self.data, raised |-> None,
              errors |-> Append(self.errors,
                                Err("Invalid SearchType. Must be 'Single' or 'Multiple'."))]
        ELSE LET destinations == _parse_text_list(doc, "Destination")
             IN  [data |-> Put(Put(self.data, "SearchType", search_type),
                               "AvailDestinations", destinations),
                  errors |-> self.errors \o DestinationErrors(search_type, destinations),
                  raised |-> None]

RECURSIVE ValidatedFields(_, _, _)
ValidatedFields(doc, d, fields) ==
    IF fields = <<>> THEN d
    ELSE LET field == Head(fields)
         IN  ValidatedFields(doc,
                 Put(d, field, _get_validated_field(doc, field, VALID_VALUES[field], field)),
                 Tail(fields))

_validate_search_criteria(doc, self) ==
    [data |-> ValidatedFields(doc, self.data, VALID_VALUES_ORDER),
     errors |-> self.errors, raised |-> None]

\* the loop over the Pax elements of one room (lines 324-331)
RECURSIVE PaxLoop(_, _)
PaxLoop(pax_elements, room_data) ==
    IF pax_elements = <<>> THEN [raised |-> None, room_data |-> room_data]
    ELSE LET pax == Head(pax_elements)
             pax_type == pax.type
         IN  IF pax_type = "Adult"
             THEN PaxLoop(Tail(pax_elements),
                          [room_data EXCEPT !.Adults = @ + 1])
             ELSE IF pax_type = "Child"
             THEN LET age == IF pax.age = None THEN "0" ELSE pax.age
                      parsed == int(age)
                  IN  IF parsed.raised # None
                      THEN [raised |-> parsed.raised,
                            room_data |-> [room_data EXCEPT !.Children = @ + 1]]
                      ELSE PaxLoop(Tail(pax_elements),
                                   [room_data EXCEPT !.Children = @ + 1,
                                                     !.childrenAges = Append(@, parsed.value)])
             ELSE PaxLoop(Tail(pax_elements), room_data)

\* the room rules (lines 334-337)
RoomRuleErrors(room_data) ==
    (IF room_data.Children # 0 /\ room_data.Adults = 0
     THEN <<Err("Each room must have at least one Adult if Children are present.")>>
     ELSE <<>>)
    \o (IF room_data.Children > allowed_child_count_per_room
        THEN <<Err("Maximum allowed children per room: 2.")>>
        ELSE <<>>)

\* the loop over the rooms (lines 314-338)
RECURSIVE RoomsLoop(_, _, _)
RoomsLoop(rooms, errs, room_list) ==
    IF rooms = <<>> THEN [raised |-> None, errors |-> errs, room_list |-> room_list]
    ELSE LET pax_elements == Head(rooms)
         IN  IF Len(pax_elements) > allowed_room_guest_count
             THEN RoomsLoop(Tail(rooms),
                            Append(errs, Err("Maximum allowed guests per room: 4.")),
                            room_list)
             ELSE LET r == PaxLoop(pax_elements,
                                   [Adults |-> 0, Children |-> 0, childrenAges |-> <<>>])
                  IN  IF r.raised # None
                      THEN [raised |-> r.raised, errors |-> errs, room_list |-> room_list]
                      ELSE RoomsLoop(Tail(rooms),
                                     errs \o RoomRuleErrors(r.room_data),
                                     Append(room_list, r.room_data))

_validate_rooms(doc, self) ==
    LET rooms == doc.Paxes
    IN  IF Len(rooms) > allowed_room_count
        THEN [data |-> self.data, raised |-> None,
              errors |-> Append(self.errors, Err("Maximum allowed rooms: 5."))]
        ELSE LET r == RoomsLoop(rooms, self.errors, <<>>)
             IN  IF r.raised # None
                 THEN [data |-> self.data, errors |-> r.errors, raised |-> r.raised]
                 ELSE [data |-> Put(self.data, "Rooms", r.room_list),
                       errors |-> r.errors, raised |-> None]

\* lines 225-234 of process: the fields set before the validation steps
ProcessHead(doc, self) ==
    LET d0 == Put(self.data, "ServiceType", "HotelSearchRequest")
        timeout == _parse_integer(doc, "timeoutMilliseconds", 0, 0)
    IN  IF timeout.raised # None
        THEN [data |-> d0, errors |-> self.errors, raised |-> timeout.raised]
        ELSE LET d1 == Put(d0, "timeoutMilliseconds", timeout.value)
                 d2 == Put(d1, "languageCode",
                           _get_validated_field(doc, "languageCode",
                                                VALID_VALUES["languageCode"], "languageCode"))
                 quota == _parse_integer(doc, "optionsQuota", 20, 50)
             IN  IF quota.raised # None
                 THEN [data |-> d2, errors |-> self.errors, raised |-> quota.raised]
                 ELSE [data |-> Put(d2, "optionsQuota", quota.value),
                       errors |-> self.errors, raised |-> None]

(***************************************************************************)
(* PricingResponseConverter                                                *)
(***************************************************************************)
\* a value of a price field: a number (in the unit of the field) or a text
\* that is no number
Num(v) == [kind |-> "number", v |-> v]
NotNumeric == [kind |-> "text", v |-> 0]

\* dict.get(key, default)
Get(d, key, default) == IF key \in DOMAIN d THEN d[key] ELSE default

\* str.upper() on the currency codes drawn
Upper(s) == IF s = "usd" THEN "USD" ELSE IF s = "eur" THEN "EUR" ELSE s

\* Decimal(str(value)): the value, or decimal.InvalidOperation
Decimal(value) ==
    IF value.kind = "number" THEN [raised |-> None, value |-> value.v]
    ELSE [raised |-> "InvalidOperation", value |-> 0]

\* try: Decimal(str(value)) except (ValueError, TypeError): Decimal("0")
_to_decimal(value) ==
    LET r == Decimal(value)
    IN  IF r.raised \in {"ValueError", "TypeError"} THEN [raised |-> None, value |-> 0]
        ELSE r

_round_HalfEven(num, den) ==
    LET q == num \div den
        r == num % den
    IN  IF 2 * r > den \/ (2 * r = den /\ q % 2 = 1) THEN q + 1 ELSE q

\* value.quantize(Decimal("0.00"), rounding=ROUND_HALF_UP) of num/den, a
\* non-negative number of hundredths
_round(num, den) ==
    LET q == num \div den
        r == num % den
    IN  IF 2 * r >= den THEN q + 1 ELSE q

\* the rate num/den between the source and the target currency, or ValueError
_get_exchange_rate(conv, source_currency) ==
    LET source == Upper(source_currency)
    IN  IF source = conv.target_currency
        THEN [raised |-> None, num |-> 1, den |-> 1]
        ELSE IF source \notin DOMAIN conv.exchange_rates
        THEN [raised |-> "ValueError", num |-> 0, den |-> 1]
        ELSE [raised |-> None, num |-> conv.exchange_rates[conv.target_currency],
              den |-> conv.exchange_rates[source]]

\* _process_hotel: the hotel entry to merge into the hotel, or the exception
_process_hotel(conv, hotel) ==
    LET price_data == Get(hotel, "price", EmptyDict)
    IN  IF price_data = EmptyDict THEN [raised |-> None, hotel |-> hotel]
        ELSE
        LET net == _to_decimal(Get(price_data, "net", Num(0)))
            markup == _to_decimal(Get(price_data, "markup", Num(0)))
            original_currency == Upper(Get(price_data, "currency", "USD"))
            exchange_rate == _get_exchange_rate(conv, original_currency)
            \* net * (1 + markup / 100), in 1/100000: thousandths times percents
            selling_price == net.value * (100 + markup.value)
            \* converted_price in hundredths is cnum / cden
            cnum == IF original_currency # conv.target_currency
                    THEN selling_price * exchange_rate.num ELSE selling_price
            cden == IF original_currency # conv.target_currency
                    THEN 1000 * exchange_rate.den ELSE 1000
        IN  IF net.raised # None THEN [raised |-> net.raised, hotel |-> hotel]
            ELSE IF markup.raised # None THEN [raised |-> markup.raised, hotel |-> hotel]
            ELSE IF exchange_rate.raised # None
            THEN [raised |-> exchange_rate.raised, hotel |-> hotel]
            ELSE [raised |-> None,
                  hotel |-> Put(hotel, "price",
                      ("selling_price" :> _round(cnum, cden))
                      @@ ("selling_currency" :> conv.target_currency)
                      @@ ("exchange_rate" :>
                              _round(100 * exchange_rate.num, exchange_rate.den))
                      @@ price_data)]

\* __init__ lines 22-23
NewConverter(args) ==
    [target_currency |-> Upper(args.target_currency),
     exchange_rates |-> IF args.exchange_rates = EmptyDict THEN ("USD" :> 100)
                        ELSE args.exchange_rates]

\* _validate_exchange_rates: None, or the exception raised
_validate_exchange_rates(conv) ==
    IF conv.target_currency \notin DOMAIN conv.exchange_rates THEN "ValueError" ELSE None

(***************************************************************************)
(* The request documents explored.  One part of the document at a time     *)
(* ranges over its wide set while the other parts range over a few values. *)
(***************************************************************************)
SeqUpTo(S, n) == UNION {[1..k -> S] : k \in 0..n}

HeaderBase == [timeoutMilliseconds |-> "25000", languageCode |-> "en", optionsQuota |-> "25"]
HeaderWide ==
    [timeoutMilliseconds : {None, "abc", "25000", "<U+00B2>"},
     languageCode : {None, "", "en", "fr", "zz"},
     optionsQuota : {None, "", "abc", "0", "25", "50", "51", "<U+00B2>"}]

ParameterBase == [password |-> "pass123", username |-> "user123", CompanyID |-> "123"]
ParameterEntries ==
    [password : {None, "pass123"}, username : {"", "user123"},
     CompanyID : {None, "", "12a", "123"}]
ParametersNarrow == {<<ParameterBase>>, <<>>}
ParametersWide == SeqUpTo(ParameterEntries, MaxParameters)

SearchBase == [SearchType |-> "Single", Destination |-> <<"New York">>]
SearchWide ==
    [SearchType : {None, "Single", "Multiple", "single"},
     Destination : SeqUpTo({"New York", "London"}, MaxDestinations)]

Date(d, m, y) == [kind |-> "dmy", d |-> d, m |-> m, y |-> y]
AbsentDate == [kind |-> "absent", d |-> 0, m |-> 0, y |-> 0]
EmptyDate == [kind |-> "empty", d |-> 0, m |-> 0, y |-> 0]
DateTexts ==
    {Date(d, m, 2028) : d \in {1, 2, 3, 4, 27, 28, 29, 30}, m \in {2, 3}}
    \cup {AbsentDate, EmptyDate}
DatesBase == [StartDate |-> Date(29, 2, 2028), EndDate |-> Date(3, 3, 2028)]
DatesWide == [StartDate : DateTexts, EndDate : DateTexts]
\* the day the request is validated on; time of day 0 is midnight sharp
Now(tod) == [day |-> ToOrdinal(26, 2, 2028), tod |-> tod]

CriteriaBase == [Currency |-> "USD", Nationality |-> "US", Market |-> "ES"]
CriteriaWide ==
    [Currency : {None, "EUR", "USD", "JPY"}, Nationality : {None, "US", "GB", "XX"},
     Market : {None, "ES", "CA", "XX"}]

Adult == [type |-> "Adult", age |-> None]
Child(age) == [type |-> "Child", age |-> age]
Infant == [type |-> "Infant", age |-> None]
RoomShapes ==
    {<<Adult>>, <<Adult, Adult, Adult, Adult, Adult>>,
     <<Child("5"), Child("7"), Child("3")>>}
RoomsNarrow == {<<<<Adult>>>>, <<<<Child("5")>>>>}
RoomsWide ==
    {<<room>> : room \in SeqUpTo({Adult, Child("5"), Child("abc")}, MaxPax)}
    \cup SeqUpTo(RoomShapes, MaxRooms)
    \cup {<<<<Adult, Child(None)>>>>, <<<<Adult, Infant, Child("7"), Child("3")>>>>,
          <<<<Infant, Infant, Infant, Infant, Infant>>, <<Adult, Child("5")>>>>}

Document(h, c, s, d, k, r) ==
    [timeoutMilliseconds |-> h.timeoutMilliseconds, languageCode |-> h.languageCode,
     optionsQuota |-> h.optionsQuota, Parameter |-> c,
     SearchType |-> s.SearchType, Destination |-> s.Destination,
     StartDate |-> d.StartDate, EndDate |-> d.EndDate,
     Currency |-> k.Currency, Nationality |-> k.Nationality, Market |-> k.Market,
     Paxes |-> r]

Documents ==
    {Document(h, c, SearchBase, DatesBase, CriteriaBase, r) :
        h \in HeaderWide, c \in ParametersNarrow, r \in RoomsNarrow}
    \cup {Document(HeaderBase, c, SearchBase, DatesBase, CriteriaBase, r) :
        c \in ParametersWide, r \in RoomsNarrow}
    \cup {Document(HeaderBase, c, s, DatesBase, CriteriaBase, r) :
        c \in ParametersNarrow, s \in SearchWide, r \in RoomsNarrow}
    \cup {Document(HeaderBase, c, SearchBase, d, CriteriaBase, r) :
        c \in ParametersNarrow, d \in DatesWide, r \in RoomsNarrow}
    \cup {Document(HeaderBase, c, SearchBase, DatesBase, k, r) :
        c \in ParametersNarrow, k \in CriteriaWide, r \in RoomsNarrow}
    \cup {Document(HeaderBase, c, SearchBase, DatesBase, CriteriaBase, r) :
        c \in ParametersNarrow, r \in RoomsWide}

NoException == [type |-> None, at |-> None]
NoResult == EmptyDict
NoResponse == EmptyDict
NoConverter == EmptyDict

\* HotelEngine.process(xml_req) is called with a well-formed document
InitRequest ==
    /\ root \in Documents
    /\ today \in {Now(tod) : tod \in {0, 1}}
    /\ pc = "process"
    /\ data = EmptyDict
    /\ errors = <<>>
    /\ exc = NoException
    /\ result = NoResult
    /\ calls = <<"validate">>
    /\ search_req_data = EmptyDict
    /\ response_obj = NoResponse
    /\ ctor_args = EmptyDict
    /\ converter = NoConverter
    /\ idx = 0
    /\ outcome = None

self == [data |-> data, errors |-> errors]

\* one step of HotelRequestProcessor.process: r is what the step computed
Step(at, next, r) ==
    /\ pc = at
    /\ data' = r.data
    /\ errors' = r.errors
    /\ IF r.raised # None
       THEN pc' = "except" /\ exc' = [type |-> r.raised, at |-> at]
       ELSE pc' = next /\ exc' = exc
    /\ UNCHANGED <<root, today, result, calls, search_req_data, pricing, outcome>>

Process == Step("process", "required_parameters", ProcessHead(root, self))

ValidateRequiredParameters ==
    Step("required_parameters", "search_type", _validate_required_parameters(root, self))

ValidateSearchTypeAndDestinations ==
    Step("search_type", "dates", _validate_search_type_and_destinations(root, self))

ValidateDates == Step("dates", "search_criteria", _validate_dates(root, today, self))

ValidateSearchCriteria ==
    Step("search_criteria", "rooms", _validate_search_criteria(root, self))

ValidateRooms == Step("rooms", "build_response", _validate_rooms(root, self))

BuildResponse ==
    /\ pc = "build_response"
    /\ result' = _build_response(self)
    /\ pc' = "returned"
    /\ UNCHANGED <<root, today, data, errors, exc, calls, search_req_data, pricing, outcome>>

\* str(ex)
ExceptionText(type) ==
    IF type = "TypeError" THEN Err("strptime() argument 1 must be str, not None")
    ELSE Err("invalid literal for int() with base 10")

\* parse_xml: except Exception as ex
ParseXmlExcept ==
    /\ pc = "except"
    /\ result' = ("status" :> "error") @@ ("errors" :> <<ExceptionText(exc.type)>>)
    /\ pc' = "returned"
    /\ UNCHANGED <<root, today, data, errors, exc, calls, search_req_data, pricing, outcome>>

(***************************************************************************)
(* HotelEngine / HotelSearchProcessor with the FakeLogin and FakeHotelAPI  *)
(* stubs.                                                                  *)
(***************************************************************************)
handle_req_service_error_StatusIgnored(json_data) == json_data = EmptyDict

\* handle_req_service_error: does it raise InvalidHotelRequestError
handle_req_service_error(json_data) ==
    json_data = EmptyDict \/ Get(json_data, "status", None) = "error"

\* handle_response_service_error: does it raise InvalidHotelResponseError
handle_response_service_error(response) ==
    response = EmptyDict \/ Get(response, "status", 0) \notin {200, 201}

Raise(type, at) ==
    /\ pc' = "raised"
    /\ exc' = [type |-> type, at |-> at]
    /\ outcome' = type

\* HotelSearchProcessor.validate_build_request, after parse_xml returned
ValidateBuildRequest ==
    /\ pc = "returned"
    /\ IF handle_req_service_error(result)
       THEN Raise("InvalidHotelRequestError", "search_hotel")
       ELSE pc' = "login" /\ UNCHANGED <<exc, outcome>>
    /\ UNCHANGED <<validator, calls, search_req_data, pricing>>

\* FakeLogin.login(parameters)
FakeLogin_login(parameters) ==
    IF \A field \in {"username", "password", "CompanyID"} :
           Truthy(Get(parameters, field, None))
    THEN ("status" :> 200) @@ ("session_id" :> "sha256") @@ ("message" :> "Login successful")
    ELSE ("status" :> 400)
         @@ ("message" :> "Missing required parameters: username, password, or CompanyID")

\* process_request lines 146-156: authenticate and create the session
Login ==
    /\ pc = "login"
    /\ LET request == Get(result, "data", EmptyDict)
           config_data == Get(request, "Configuration", [Parameters |-> [Parameter |-> <<>>]])
           parameters == config_data.Parameters.Parameter
           login_req == IF parameters # <<>> THEN parameters[1] ELSE EmptyDict
           login_obj == FakeLogin_login(login_req)
           popped == [k \in DOMAIN request \ {"Configuration"} |-> request[k]]
       IN  /\ calls' = Append(calls, "login")
           /\ IF handle_response_service_error(login_obj)
              THEN /\ Raise("InvalidHotelResponseError", "login_api")
                   /\ search_req_data' = popped
              ELSE /\ pc' = "search"
                   /\ search_req_data' = Put(popped, "session_id", login_obj.session_id)
                   /\ UNCHANGED <<exc, outcome>>
    /\ UNCHANGED <<validator, pricing>>

\* the hotels FakeHotelAPI._generate_hotel_data may draw (net, markup at random)
StubHotels ==
    {("id" :> "A#1") @@ ("hotelCodeSupplier" :> "10000000") @@ ("market" :> "US")
     @@ ("price" :> (("net" :> Num(net)) @@ ("currency" :> "USD")
                     @@ ("markup" :> Num(markup)) @@ ("exchange_rate" :> Num(100)))) :
        net \in {100000, 150500}, markup \in {5}}

\* FakeHotelAPI.process_request(request) with the hotels it generated
FakeHotelAPI_process_request(request, hotel_data) ==
    IF "session_id" \notin DOMAIN request \/ "ServiceType" \notin DOMAIN request
    THEN ("status" :> 400) @@ ("data" :> EmptyDict) @@ ("message" :> "Missing field")
    ELSE IF ~Truthy(request.session_id)
    THEN ("status" :> 400) @@ ("data" :> EmptyDict) @@ ("message" :> "Invalid Session ID")
    ELSE IF request.ServiceType # "HotelSearchRequest"
    THEN ("status" :> 400) @@ ("data" :> EmptyDict) @@ ("message" :> "Invalid ServiceType")
    ELSE ("status" :> 200)
         @@ ("data" :> [session_id |-> request.session_id, hotels |-> hotel_data])
         @@ ("message" :> "Search successful")

\* the call in progress is HotelEngine.process, which hands what
\* process_request returns to process_response (line 104)
ByHotelEngine == calls # <<>> /\ calls[1] = "validate"

\* process_request lines 158-163: call the search API
Search ==
    /\ pc = "search"
    /\ LET num_hotels == Len(Get(search_req_data, "AvailDestinations", <<0>>))
       IN  \E hotel_data \in [1..num_hotels -> StubHotels] :
               response_obj' = FakeHotelAPI_process_request(search_req_data, hotel_data)
    /\ calls' = Append(calls, "search")
    /\ IF ByHotelEngine
       THEN pc' = "process_response" /\ outcome' = outcome
       ELSE pc' = "done" /\ outcome' = "returned"
    /\ UNCHANGED <<validator, exc, search_req_data, ctor_args, converter, idx>>

\* HotelSearchProcessor.process_response up to the construction of the converter
ProcessResponse ==
    /\ pc = "process_response"
    /\ IF handle_response_service_error(response_obj)
       THEN /\ Raise("InvalidHotelResponseError", "search_hotel")
            /\ UNCHANGED <<calls, ctor_args>>
       ELSE /\ pc' = "construct"
            /\ calls' = Append(calls, "convert")
            /\ ctor_args' = [target_currency |-> "EUR",
                             exchange_rates |-> [USD |-> 100, EUR |-> 85, GBP |-> 117]]
            /\ UNCHANGED <<exc, outcome>>
    /\ UNCHANGED <<validator, search_req_data, response_obj, converter, idx>>

\* PricingResponseConverter.__init__
ConverterInit ==
    /\ pc = "construct"
    /\ converter' = NewConverter(ctor_args)
    /\ IF _validate_exchange_rates(converter') # None
       THEN Raise(_validate_exchange_rates(converter'), "__init__") /\ idx' = idx
       ELSE pc' = "convert" /\ idx' = 1 /\ UNCHANGED <<exc, outcome>>
    /\ UNCHANGED <<validator, calls, search_req_data, response_obj, ctor_args>>

\* one round of the loop of convert: hotel.update(self._process_hotel(hotel))
ConvertHotel ==
    /\ pc = "convert"
    /\ idx <= Len(response_obj.data.hotels)
    /\ LET r == _process_hotel(converter, response_obj.data.hotels[idx])
       IN  IF r.raised # None
           THEN Raise(r.raised, "convert") /\ UNCHANGED <<response_obj, idx>>
           ELSE /\ response_obj' =
                       [response_obj EXCEPT !.data.hotels[idx] = r.hotel @@ @]
                /\ idx' = idx + 1
                /\ UNCHANGED <<pc, exc, outcome>>
    /\ UNCHANGED <<validator, calls, search_req_data, ctor_args, converter>>

\* convert returns response_data
ConvertReturn ==
    /\ pc = "convert"
    /\ idx > Len(response_obj.data.hotels)
    /\ pc' = "done"
    /\ outcome' = "returned"
    /\ UNCHANGED <<validator, exc, calls, search_req_data, pricing>>

(***************************************************************************)
(* The converter called on its own: any target, rate table and batch.      *)
(***************************************************************************)
MaxHotels == 2

Entries(key, values) == {key :> v : v \in values} \cup {EmptyDict}

PriceBlocks ==
    {n @@ m @@ ("currency" :> c) :
        n \in Entries("net", {Num(100000), Num(2345), NotNumeric}),
        m \in Entries("markup", {Num(5)}),
        c \in {"USD", "eur", "JPY"}}
    \cup {"net" :> Num(100000), ("net" :> Num(2345)) @@ ("markup" :> NotNumeric)}

Hotels ==
    {("id" :> "A#1") @@ ("price" :> p) : p \in PriceBlocks}
    \cup {"id" :> "A#1", ("id" :> "A#1") @@ ("price" :> EmptyDict)}

RateTables == {EmptyDict, [USD |-> 100, EUR |-> 85], [USD |-> 100, EUR |-> 85, GBP |-> 117]}

InitConverter ==
    /\ ctor_args \in [target_currency : {"EUR", "usd", "CHF"}, exchange_rates : RateTables]
    /\ response_obj \in
           {("status" :> 200) @@ ("data" :> [session_id |-> "sha256", hotels |-> h]) :
               h \in SeqUpTo(Hotels, MaxHotels)}
    /\ pc = "construct"
    /\ root = EmptyDict
    /\ today = Now(0)
    /\ data = EmptyDict
    /\ errors = <<>>
    /\ exc = NoException
    /\ result = NoResult
    /\ calls = <<>>
    /\ search_req_data = EmptyDict
    /\ converter = NoConverter
    /\ idx = 0
    /\ outcome = None

(***************************************************************************)
(* The classmethods of HotelSearchProcessor called on their own:           *)
(* process_request with any request JSON, process_response with any        *)
(* response of the search API.                                             *)
(***************************************************************************)
RequestData ==
    {c @@ t @@ d :
        c \in Entries("Configuration",
                      {[Parameters |-> [Parameter |-> p]] :
                          p \in {<<>>, <<ParameterBase>>,
                                 <<[ParameterBase EXCEPT !.password = None], ParameterBase>>,
                                 <<[ParameterBase EXCEPT !.CompanyID = ""]>>}}),
        t \in Entries("ServiceType", {"HotelSearchRequest", "HotelBookRequest"}),
        d \in Entries("AvailDestinations", {<<"New York">>, <<"New York", "London">>})}

RequestJsons ==
    {("status" :> "success") @@ ("data" :> d) : d \in RequestData}
    \cup {"status" :> "success"}

InitProcessRequest ==
    /\ result \in RequestJsons
    /\ pc = "login"
    /\ root = EmptyDict
    /\ today = Now(0)
    /\ data = EmptyDict
    /\ errors = <<>>
    /\ exc = NoException
    /\ calls = <<>>
    /\ search_req_data = EmptyDict
    /\ response_obj = NoResponse
    /\ ctor_args = EmptyDict
    /\ converter = NoConverter
    /\ idx = 0
    /\ outcome = None

SearchResponses ==
    {("status" :> s) @@ ("data" :> [session_id |-> "sha256", hotels |-> h])
     @@ ("message" :> "Search successful") :
        s \in {200, 201}, h \in SeqUpTo(StubHotels, MaxHotels)}
    \cup {("status" :> s) @@ ("data" :> EmptyDict) @@ ("message" :> m) :
            s \in {400, 500},
            m \in {"Invalid Session ID", "Invalid ServiceType", "Missing field"}}

InitProcessResponse ==
    /\ response_obj \in SearchResponses
    /\ pc = "process_response"
    /\ root = EmptyDict
    /\ today = Now(0)
    /\ data = EmptyDict
    /\ errors = <<>>
    /\ exc = NoException
    /\ result = NoResult
    /\ calls = <<>>
    /\ search_req_data = EmptyDict
    /\ ctor_args = EmptyDict
    /\ converter = NoConverter
    /\ idx = 0
    /\ outcome = None

(***************************************************************************)
(* XmltoDictProcessor: parse_xml(xml_string, "xml_to_json").  A node of    *)
(* the parsed tree is an element (tag, attrib, text, children) or a        *)
(* comment or processing instruction, whose tag is no string.  A mapped    *)
(* value is a scalar (kind bool, int, float or str), a dict (kind dict,    *)
(* items) or a list (kind list, elements).                                 *)
(***************************************************************************)
MaxChildren == 3

Bool(b) == [kind |-> "bool", b |-> b]
Integer(n) == [kind |-> "int", n |-> n]
\* a float, in tenths
Float(tenths) == [kind |-> "float", tenths |-> tenths]
Str(s) == [kind |-> "str", s |-> s]
Dict(items) == [kind |-> "dict", items |-> items]
List(elements) == [kind |-> "list", elements |-> elements]

\* str.lower() and str.strip() on the texts drawn
Lower(s) == IF s \in {"true", "True", "TRUE"} THEN "true"
            ELSE IF s \in {"false", "False"} THEN "false" ELSE s

Strip(s) == IF s = " 7 " THEN "7" ELSE IF s = "  " THEN "" ELSE s

\* float(s) on the texts int() refused: the value in tenths, or ValueError
float(s) ==
    IF s = "1.5" THEN [raised |-> None, value |-> 15]
    ELSE [raised |-> "ValueError", value |-> 0]

_fromstring(value) ==
    IF ~Truthy(value) THEN Str("")
    ELSE IF Lower(value) = "true" THEN Bool(TRUE)
    ELSE IF Lower(value) = "false" THEN Bool(FALSE)
    ELSE IF int(value).raised = None THEN Integer(int(value).value)
    ELSE IF float(value).raised = None THEN Float(float(value).value)
    ELSE Str(value)

\* isinstance(node.tag, str)
IsElement(node) == node.kind = "element"

\* the loop over root.attrib.items() (lines 176-178)
RECURSIVE AttributeEntries(_, _)
AttributeEntries(attrib, names) ==
    IF names = {} THEN EmptyDict
    ELSE LET attr == CHOOSE a \in names : TRUE
         IN  Put(AttributeEntries(attrib, names \ {attr}),
                 "@" \o attr, _fromstring(attrib[attr]))

TagCount_One(children, tag) == 1

\* tag_count[tag] of Counter(child.tag for child in children)
TagCount(children, tag) ==
    Cardinality({i \in 1..Len(children) : children[i].tag = tag})

RECURSIVE _element_to_dict(_)
RECURSIVE ChildrenLoop(_, _, _)

\* the loop over the child elements (lines 189-194)
ChildrenLoop(rest, children, mapping) ==
    IF rest = <<>> THEN mapping
    ELSE LET child == Head(rest)
             mapped == _element_to_dict(child)
         IN  IF TagCount(children, child.tag) = 1
             THEN ChildrenLoop(Tail(rest), children, Put(mapping, child.tag, mapped))
             ELSE ChildrenLoop(Tail(rest), children,
                      Put(mapping, child.tag,
                          List(Append(Get(mapping, child.tag, List(<<>>)).elements, mapped))))

_element_to_dict(element) ==
    LET mapping == AttributeEntries(element.attrib, DOMAIN element.attrib)
        children == SelectSeq(element.children, IsElement)
    IN  IF children = <<>>
        THEN IF Truthy(element.text) /\ Truthy(Strip(element.text))
             THEN _fromstring(Strip(element.text))
             ELSE Dict(mapping)
        ELSE Dict(ChildrenLoop(children, children, mapping))

Element(tag, attrib, text, children) ==
    [kind |-> "element", tag |-> tag, attrib |-> attrib, text |-> text,
     children |-> children]
Comment == [kind |-> "comment"]
ProcessingInstruction == [kind |-> "pi"]

Texts == {None, "  ", " 7 ", "True", "false", "abc", "1.5"}
Attribs == {EmptyDict, "id" :> "7", ("id" :> "abc") @@ ("ref" :> "true")}

\* the elements with no child node
Leaves == {Element(tag, a, t, <<>>) : tag \in {"a", "b"}, a \in Attribs, t \in Texts}

\* the elements whose children are leaves, comments, processing instructions
Parents ==
    {Element("m", a, t, c) :
        a \in {EmptyDict, "id" :> "7"}, t \in {None, "abc"},
        c \in SeqUpTo({Element("a", EmptyDict, " 7 ", <<>>),
                       Element("a", "id" :> "7", None, <<>>),
                       Element("a", "id" :> "7", "abc", <<>>),
                       Element("b", EmptyDict, "True", <<>>),
                       Comment, ProcessingInstruction}, MaxChildren)}

\* the elements with grandchildren
GrandParents ==
    {Element("root", "id" :> "7", None, c) :
        c \in SeqUpTo({Element("m", EmptyDict, None,
                               <<Element("a", EmptyDict, " 7 ", <<>>),
                                 Comment,
                                 Element("a", "id" :> "7", None, <<>>)>>),
                       Element("m", "id" :> "7", None,
                               <<Element("b", EmptyDict, "True", <<>>)>>),
                       Element("a", EmptyDict, "1.5", <<>>),
                       Comment}, MaxChildren)}

Elements == Leaves \cup Parents \cup GrandParents

\* parse_xml(xml_string, "xml_to_json") is called with a well-formed document
InitMapper ==
    /\ root \in Elements
    /\ pc = "xml_to_json"
    /\ today = Now(0)
    /\ data = EmptyDict
    /\ errors = <<>>
    /\ exc = NoException
    /\ result = NoResult
    /\ calls = <<>>
    /\ search_req_data = EmptyDict
    /\ response_obj = NoResponse
    /\ ctor_args = EmptyDict
    /\ converter = NoConverter
    /\ idx = 0
    /\ outcome = None

\* XmltoDictProcessor.process
XmltoDictProcess ==
    /\ pc = "xml_to_json"
    /\ data' = _element_to_dict(root)
    /\ result' = _build_response([data |-> data', errors |-> errors])
    /\ pc' = "mapped"
    /\ outcome' = "returned"
    /\ UNCHANGED <<root, today, errors, exc, calls, search_req_data, pricing>>

Init ==
    \/ InitRequest
    \/ InitConverter
    \/ InitProcessRequest
    \/ InitProcessResponse
    \/ InitMapper

Next ==
    \/ Process
    \/ ValidateRequiredParameters
    \/ ValidateSearchTypeAndDestinations
    \/ ValidateDates
    \/ ValidateSearchCriteria
    \/ ValidateRooms
    \/ BuildResponse
    \/ ParseXmlExcept
    \/ ValidateBuildRequest
    \/ Login
    \/ Search
    \/ ProcessResponse
    \/ ConverterInit
    \/ ConvertHotel
    \/ ConvertReturn
    \/ XmltoDictProcess

Spec == Init /\ [][Next]_vars

(***************************************************************************)
(* Properties                                                              *)
(***************************************************************************)
IsRequest == pc # "construct" /\ calls # <<>> /\ calls[1] = "validate"

Has(seq, e) == \E i \in 1..Len(seq) : seq[i] = e

AllDecimal(s) == s \in DOMAIN DecimalValue

\* ---- C4 ----------------------------------------------------------------
OffendingParameter(p) ==
    ~(Truthy(p.password) /\ Truthy(p.username) /\ Truthy(p.CompanyID)
      /\ AllDecimal(p.CompanyID))

MissingEveryField(p) ==
    ~Truthy(p.password) /\ ~Truthy(p.username) /\ ~Truthy(p.CompanyID)

\* the position, among the errors, of the error of the offending entry i
ErrorRank(P, i) == Cardinality({j \in 1..i : OffendingParameter(P[j])})

SingleError == Err("Single SearchType must have exactly one destination.")

C5_Step ==
    (pc = "search_type" /\ root.SearchType \in {"Single", "Multiple"}) =>
        LET n == Len(root.Destination)
        IN  /\ pc' = "dates"
            /\ "AvailDestinations" \in DOMAIN data'
            /\ data'.AvailDestinations = root.Destination
            /\ (root.SearchType = "Single" /\ n # 1) => errors' = Append(errors, SingleError)
            /\ (root.SearchType = "Multiple" /\ n > 5) =>
                   /\ Len(errors') = Len(errors) + 1
                   /\ SubSeq(errors', 1, Len(errors)) = errors
                   /\ errors'[Len(errors')] # SingleError
            /\ (root.SearchType = "Single" /\ n = 1) => errors' = errors
            /\ (root.SearchType = "Multiple" /\ n <= 5) => errors' = errors

\* C5: with SearchType Single and a number of destinations other than 1 the
\* step appends "Single SearchType must have exactly one destination.", with
\* Multiple and more than 5 destinations it appends one error, with Single and
\* exactly 1 or Multiple and at most 5 it appends nothing; in each case the
\* full ordered destination list is recorded as AvailDestinations.
C5_DestinationCount == [][C5_Step]_vars

\* C5 witness: Single with two destinations: the error is there and both
\* destinations are recorded
C5_Witness ==
    /\ pc = "dates"
    /\ root.SearchType = "Single"
    /\ root.Destination = <<"London", "New York">>
    /\ data.AvailDestinations = <<"London", "New York">>
    /\ errors # <<>> /\ errors[Len(errors)] = SingleError

\* ---- C10 ---------------------------------------------------------------
InvalidSearchTypeError == Err("Invalid SearchType. Must be 'Single' or 'Multiple'.")

\* C10 as claimed: with SearchType absent or not Single/Multiple the step
\* appends exactly one invalid-SearchType error and still records the
\* destinations found in the document.
C10_Original ==
    (pc = "dates" /\ root.SearchType \notin {"Single", "Multiple"}) =>
        /\ errors[Len(errors)] = InvalidSearchTypeError
        /\ "AvailDestinations" \in DOMAIN data
        /\ data.AvailDestinations = root.Destination

C10_Step ==
    (pc = "search_type" /\ root.SearchType \notin {"Single", "Multiple"}) =>
        /\ pc' = "dates"
        /\ errors' = Append(errors, InvalidSearchTypeError)
        /\ data' = data
        /\ "AvailDestinations" \notin DOMAIN data'
        /\ "SearchType" \notin DOMAIN data'

\* C10 amended: with SearchType absent or not Single/Multiple the step
\* appends exactly one invalid-SearchType error and no destination-count
\* error, and returns before the destinations are collected: neither
\* SearchType nor AvailDestinations is recorded in the processed data.
C10_InvalidSearchType == [][C10_Step]_vars

\* C10 witness: SearchType absent, two destinations in the document, none
\* recorded
C10_Witness ==
    /\ pc = "dates"
    /\ root.SearchType = None
    /\ Len(root.Destination) = 2
    /\ errors # <<>> /\ errors[Len(errors)] = InvalidSearchTypeError
    /\ "AvailDestinations" \notin DOMAIN data

\* ---- C1 ----------------------------------------------------------------
Adults(room) == Cardinality({i \in 1..Len(room) : room[i].type = "Adult"})
Children(room) == Cardinality({i \in 1..Len(room) : room[i].type = "Child"})

IsDate(text) == strptime_raises(text) = None
Ordinal(text) == ToOrdinal(text.d, text.m, text.y)

\* the requests C1 speaks of; on top of its conditions the numeric header
\* fields are absent or decimal and every child age is absent or decimal
C1_ValidRequest ==
    /\ root.timeoutMilliseconds \in (DOMAIN DecimalValue) \cup {None}
    /\ root.optionsQuota \in (DOMAIN DecimalValue) \cup {None}
    /\ Len(root.Parameter) = 1 /\ ~OffendingParameter(root.Parameter[1])
    /\ root.SearchType = "Single" /\ Len(root.Destination) = 1
    /\ IsDate(root.StartDate) /\ IsDate(root.EndDate)
    /\ Ordinal(root.StartDate) >= today.day + 2
    /\ Ordinal(root.EndDate) - Ordinal(root.StartDate) >= 3
    /\ Len(root.Paxes) <= 5
    /\ \A i \in 1..Len(root.Paxes) :
        LET room == root.Paxes[i]
        IN  /\ Len(room) <= 4
            /\ Children(room) <= 2
            /\ Children(room) > 0 => Adults(room) >= 1
            /\ \A j \in 1..Len(room) : room[j].age \in (DOMAIN DecimalValue) \cup {None}

\* C1: a well-formed request with one valid credential entry, SearchType
\* Single with one destination, StartDate on or after today + 2 days
\* (today + 2 days included, whatever the time of day), a stay of at least 3
\* nights and rooms within the limits validates with status success and no
\* error.
C1_ValidRequestSucceeds ==
    (IsRequest /\ result # NoResult /\ C1_ValidRequest) =>
        /\ result.status = "success"
        /\ errors = <<>>

\* ---- C2 ----------------------------------------------------------------
\* C2: for a well-formed document every validation step runs to the end and
\* no rule violation is fatal: parse_xml returns Failure with all the errors
\* accumulated, in step order, if any step recorded one, and Success
\* otherwise; no step raises and no accumulated error is lost.
C2_AllStepsRunErrorsKept ==
    (IsRequest /\ result # NoResult
     /\ root.timeoutMilliseconds \notin NonDecimalDigits
     /\ root.optionsQuota \notin NonDecimalDigits) =>
        /\ exc.at \notin {"process", "required_parameters", "search_type", "dates",
                          "search_criteria", "rooms"}
        /\ "Rooms" \in DOMAIN data \/ Len(root.Paxes) > 5
        /\ IF errors # <<>>
           THEN result.status = "error" /\ result.errors = errors
           ELSE result.status = "success"

\* ---- C3 ----------------------------------------------------------------
Corrected(doc, field) ==
    IF doc[field] \in VALID_VALUES[field] THEN doc[field] ELSE DEFAULTS[field]

\* C3: languageCode, Currency, Nationality and Market outside their allowed
\* sets (or absent) are recorded as en, EUR, US, ES and optionsQuota absent or
\* not all digits as 20, above 50 as 50, all without an error: reading these
\* fields appends no error and never fails the request.
C3_SilentCorrection ==
    (IsRequest /\ root.timeoutMilliseconds \notin NonDecimalDigits) =>
        /\ exc.at \notin {"process", "search_criteria"}
        /\ pc = "required_parameters" =>
            /\ errors = <<>>
            /\ data.languageCode = Corrected(root, "languageCode")
            /\ data.optionsQuota =
                   IF root.optionsQuota \in DOMAIN DecimalValue
                   THEN Min(DecimalValue[root.optionsQuota], 50)
                   ELSE 20
        /\ pc = "rooms" =>
            \A field \in {"languageCode", "Currency", "Nationality", "Market"} :
                data[field] = Corrected(root, field)

\* ---- C6 ----------------------------------------------------------------
StartDateError == Err("StartDate must be at least 2 days after today.")
StayError == Err("Stay duration must be at least 3 nights.")

\* C6: when both dates parse, the start-date error is appended if and only
\* if StartDate < today + 2 days (StartDate = today + 2 days is accepted),
\* the stay error if and only if EndDate - StartDate < 3 days, independently,
\* and both dates are recorded either way.
C6_DatePolicy ==
    (pc = "search_criteria" /\ IsDate(root.StartDate) /\ IsDate(root.EndDate)) =>
        /\ Has(errors, StartDateError) <=> Ordinal(root.StartDate) < today.day + 2
        /\ Has(errors, StayError) <=>
               Ordinal(root.EndDate) - Ordinal(root.StartDate) < 3
        /\ data.StartDate = root.StartDate
        /\ data.EndDate = root.EndDate

\* ---- C7 ----------------------------------------------------------------
NoAdultError == Err("Each room must have at least one Adult if Children are present.")
MaxChildrenError == Err("Maximum allowed children per room: 2.")

\* the rooms step has run: it completed or it raised
RoomsStepOver == pc = "build_response" \/ exc.at = "rooms"

\* C7: for a room within the guest limit an error is appended if it has
\* children and no adult, and an error if it has more than 2 children, and
\* the room's occupancy is recorded all the same with its actual counts.
C7_ChildRules ==
    (RoomsStepOver /\ Len(root.Paxes) <= 5) =>
        \A i \in 1..Len(root.Paxes) :
            LET room == root.Paxes[i]
            IN  Len(room) <= 4 =>
                /\ (Children(room) > 0 /\ Adults(room) = 0) => Has(errors, NoAdultError)
                /\ Children(room) > 2 => Has(errors, MaxChildrenError)
                /\ "Rooms" \in DOMAIN data
                /\ \E k \in 1..Len(data.Rooms) :
                       /\ data.Rooms[k].Children = Children(room)
                       /\ data.Rooms[k].Adults = Adults(room)
                       /\ Len(data.Rooms[k].childrenAges) = Children(room)

\* ---- C8 ----------------------------------------------------------------
HotelAt(i) == response_obj.data.hotels[i]
Priced(i) == "price" \in DOMAIN HotelAt(i) /\ HotelAt(i).price # EmptyDict
\* the hotels the loop of convert has been through
Converted == IF converter = NoConverter \/ exc.at = "__init__" THEN {} ELSE 1..(idx - 1)

ItemCurrency(i) == Upper(Get(HotelAt(i).price, "currency", "USD"))
SameCurrency(i) == ItemCurrency(i) = converter.target_currency
RateNum(i) == IF SameCurrency(i) THEN 1 ELSE converter.exchange_rates[converter.target_currency]
RateDen(i) == IF SameCurrency(i) THEN 1 ELSE converter.exchange_rates[ItemCurrency(i)]

\* q is num/den rounded to the nearest integer, ties up
IsHalfUp(q, num, den) == LET diff == num - q * den IN -den <= 2 * diff /\ 2 * diff < den

\* C8: every converted item has selling_price = net * (1 + markup/100) * rate
\* rounded half-up to 2 decimals, with rate 1 when the item currency is the
\* target and table[target] / table[item currency] otherwise, exchange_rate =
\* that rate rounded half-up to 2 decimals and selling_currency = the target;
\* 2.345 becomes 2.35, and net 100.00 with markup 5 from USD to EUR at
\* {USD: 1.0, EUR: 0.85} gives 89.25, EUR, 0.85.
C8_PricingArithmetic ==
    \A i \in Converted :
        Priced(i) =>
            LET price == HotelAt(i).price
                net == Get(price, "net", Num(0)).v
                markup == Get(price, "markup", Num(0)).v
            IN  /\ IsHalfUp(price.selling_price,
                            net * (100 + markup) * RateNum(i), 1000 * RateDen(i))
                /\ IsHalfUp(price.exchange_rate, 100 * RateNum(i), RateDen(i))
                /\ price.selling_currency = converter.target_currency
                /\ (net = 2345 /\ markup = 0 /\ SameCurrency(i)) => price.selling_price = 235
                /\ (net = 100000 /\ markup = 5 /\ ItemCurrency(i) = "USD"
                    /\ converter.target_currency = "EUR"
                    /\ converter.exchange_rates["USD"] = 100
                    /\ converter.exchange_rates["EUR"] = 85) =>
                       /\ price.selling_price = 8925
                       /\ price.exchange_rate = 85

\* C8 witness: a batch of the tie 2.345 in the target currency and of
\* 100.00 + 5% from USD to EUR, both converted
C8_Witness ==
    /\ pc = "done"
    /\ converter # NoConverter
    /\ Len(response_obj.data.hotels) = 2
    /\ converter.target_currency = "EUR"
    /\ converter.exchange_rates = [USD |-> 100, EUR |-> 85]
    /\ Priced(1) /\ Priced(2)
    /\ Get(HotelAt(1).price, "net", Num(0)) = Num(2345)
    /\ "markup" \notin DOMAIN HotelAt(1).price
    /\ ItemCurrency(1) = "EUR"
    /\ HotelAt(1).price.selling_price = 235
    /\ Get(HotelAt(2).price, "net", Num(0)) = Num(100000)
    /\ Get(HotelAt(2).price, "markup", Num(0)) = Num(5)
    /\ ItemCurrency(2) = "USD"
    /\ HotelAt(2).price.selling_price = 8925
    /\ HotelAt(2).price.selling_currency = "EUR"
    /\ HotelAt(2).price.exchange_rate = 85

\* ---- C9 ----------------------------------------------------------------
Convertible(i) == SameCurrency(i) \/ ItemCurrency(i) \in DOMAIN converter.exchange_rates
PricedItems == {i \in 1..Len(response_obj.data.hotels) : Priced(i)}

\* C9: construction fails exactly when the target currency has no entry in
\* the rate table; once constructed, convert fails with the configuration
\* error (ValueError) and returns nothing if some priced item has a currency
\* that is neither the target nor in the table, and otherwise returns the
\* response with every priced item augmented.
C9_NoPartialSuccess ==
    (converter # NoConverter /\ pc \in {"done", "raised"}) =>
        /\ exc.at = "__init__" <=>
               converter.target_currency \notin DOMAIN converter.exchange_rates
        /\ exc.at # "__init__" =>
               IF \A i \in PricedItems : Convertible(i)
               THEN /\ pc = "done" /\ outcome = "returned"
                    /\ \A i \in PricedItems : "selling_price" \in DOMAIN HotelAt(i).price
               ELSE /\ pc = "raised" /\ exc.type = "ValueError" /\ outcome # "returned"

\* ---- C11 ---------------------------------------------------------------
InvalidDateError == Err("Invalid date format, expected DD/MM/YYYY.")

Count(seq, e) == Cardinality({i \in 1..Len(seq) : seq[i] = e})

\* the dates step has run: it completed or it raised
DatesStepOver ==
    \/ exc.at = "dates"
    \/ pc \in {"search_criteria", "rooms", "build_response"}
    \/ (result # NoResult /\ exc.at = None)

\* C11: when StartDate or EndDate is absent, empty or no DD/MM/YYYY calendar
\* date, the dates step appends exactly one "Invalid date format" error and
\* no range error, records neither date and does not raise: the search
\* criteria and rooms steps still run and the final result carries every
\* accumulated error.
C11_DateFormatSoftError ==
    (IsRequest /\ DatesStepOver /\ ~(IsDate(root.StartDate) /\ IsDate(root.EndDate))) =>
        /\ exc.at # "dates"
        /\ Count(errors, InvalidDateError) = 1
        /\ ~Has(errors, StartDateError) /\ ~Has(errors, StayError)
        /\ "StartDate" \notin DOMAIN data /\ "EndDate" \notin DOMAIN data
        /\ result # NoResult =>
               /\ result.status = "error" /\ result.errors = errors
               /\ \A field \in DOMAIN VALID_VALUES : field \in DOMAIN data
               /\ "Rooms" \in DOMAIN data \/ Len(root.Paxes) > allowed_room_count

\* ---- C12 ---------------------------------------------------------------
\* the ages C12 expects for the Child guests of a room, in document order
RECURSIVE ExpectedAges(_)
ExpectedAges(room) ==
    IF room = <<>> THEN <<>>
    ELSE (IF Head(room).type = "Child"
          THEN <<IF Head(room).age \in DOMAIN DecimalValue
                 THEN DecimalValue[Head(room).age] ELSE 0>>
          ELSE <<>>)
         \o ExpectedAges(Tail(room))

\* the rooms within the guest-count limit, in document order
WithinGuestLimit(rooms) ==
    LET Small(room) == Len(room) <= allowed_room_guest_count IN SelectSeq(rooms, Small)

\* the errors the room rules give for the rooms within the guest-count limit
ExpectedRuleErrors(rooms) ==
    Cardinality({i \in 1..Len(rooms) :
                    Len(rooms[i]) <= allowed_room_guest_count
                    /\ Children(rooms[i]) > 0 /\ Adults(rooms[i]) = 0})
    + Cardinality({i \in 1..Len(rooms) :
                      Len(rooms[i]) <= allowed_room_guest_count
                      /\ Children(rooms[i]) > allowed_child_count_per_room})

\* C12: for every Child guest of a room within the guest-count limit the age
\* appended to childrenAges is the integer value of a numeric age attribute
\* and 0 for an absent or non-numeric one; a non-numeric age adds no error,
\* does not abort the validation, and the RoomOccupancy of the room is
\* recorded.
C12_ChildAgeDefault ==
    (IsRequest /\ RoomsStepOver /\ Len(root.Paxes) <= allowed_room_count) =>
        LET kept == WithinGuestLimit(root.Paxes)
        IN  /\ exc.at # "rooms"
            /\ "Rooms" \in DOMAIN data
            /\ Len(data.Rooms) = Len(kept)
            /\ \A k \in 1..Len(kept) : data.Rooms[k].childrenAges = ExpectedAges(kept[k])
            /\ Count(errors, NoAdultError) + Count(errors, MaxChildrenError)
                   = ExpectedRuleErrors(root.Paxes)

\* ---- C13 ---------------------------------------------------------------
MaxRoomsError == Err("Maximum allowed rooms: 5.")
MaxGuestsError == Err("Maximum allowed guests per room: 4.")

\* C13: with more than 5 rooms exactly one maximum-rooms error is appended
\* and no RoomOccupancy is recorded; otherwise every room with more than 4
\* guests gives exactly one per-room error and no RoomOccupancy while every
\* other room is processed in document order, so that the recorded entries
\* are as many as the rooms with at most 4 guests and each has
\* Adults + Children <= 4 and as many childrenAges as Children.
C13_RoomLimits ==
    (IsRequest /\ RoomsStepOver) =>
        IF Len(root.Paxes) > allowed_room_count
        THEN /\ Count(errors, MaxRoomsError) = 1
             /\ Count(errors, MaxGuestsError) = 0
             /\ "Rooms" \notin DOMAIN data
        ELSE LET kept == WithinGuestLimit(root.Paxes)
             IN  /\ Count(errors, MaxRoomsError) = 0
                 /\ Count(errors, MaxGuestsError) = Len(root.Paxes) - Len(kept)
                 /\ "Rooms" \in DOMAIN data
                 /\ Len(data.Rooms) = Len(kept)
                 /\ \A k \in 1..Len(kept) :
                        LET occupancy == data.Rooms[k]
                        IN  /\ occupancy.Adults = Adults(kept[k])
                            /\ occupancy.Children = Children(kept[k])
                            /\ occupancy.Adults + occupancy.Children
                                   <= allowed_room_guest_count
                            /\ Len(occupancy.childrenAges) = occupancy.Children

\* ---- C14 ---------------------------------------------------------------
\* the value the decimal-safe parse is claimed to give: 0 for no number
NumberOrZero(value) == IF value.kind = "number" THEN value.v ELSE 0

C14_Step ==
    (pc = "convert" /\ idx <= Len(response_obj.data.hotels)) =>
        LET before == HotelAt(idx)
            after == response_obj'.data.hotels[idx]
        IN  IF ~Priced(idx)
            THEN after = before /\ pc' = "convert" /\ idx' = idx + 1
            ELSE LET price == before.price
                     net == NumberOrZero(Get(price, "net", Num(0)))
                     markup == NumberOrZero(Get(price, "markup", Num(0)))
                 IN  /\ exc'.type # "InvalidOperation"
                     /\ Convertible(idx) =>
                            /\ pc' = "convert" /\ idx' = idx + 1
                            /\ \A key \in DOMAIN price \cap {"net", "markup", "currency"} :
                                   after.price[key] = price[key]
                            /\ after.price.selling_currency = converter.target_currency
                            /\ IsHalfUp(after.price.selling_price,
                                        net * (100 + markup) * RateNum(idx),
                                        1000 * RateDen(idx))

\* C14: the decimal-safe parse never raises: for every priced item a net
\* price or markup that is absent or no numeric text counts as 0, the item
\* is converted with the 0 substitute and the loop goes on to the next item;
\* net, markup and the original currency of the item are left as they were,
\* and an item with no price block passes through unmodified.
C14_DecimalSafeParse == [][C14_Step]_vars

\* ---- C15 ---------------------------------------------------------------
Stages == <<"validate", "login", "search", "convert">>

\* the stages invoked are consecutive stages of the pipeline, each once
ConsecutiveStages(invoked) ==
    \E first \in 1..Len(Stages) :
        /\ first + Len(invoked) - 1 <= Len(Stages)
        /\ invoked = SubSeq(Stages, first, first + Len(invoked) - 1)

LastStage == IF calls = <<>> THEN None ELSE calls[Len(calls)]

\* what the login stub answered to the request validation handed over
LoginStatus ==
    LET request == Get(result, "data", EmptyDict)
        config_data == Get(request, "Configuration", [Parameters |-> [Parameter |-> <<>>]])
        parameters == config_data.Parameters.Parameter
    IN  FakeLogin_login(IF parameters # <<>> THEN parameters[1] ELSE EmptyDict).status

SearchStatus == Get(response_obj, "status", 0)

Ok(status) == status \in {200, 201}

ValidationFailed == ByHotelEngine /\ result # NoResult /\ result.status = "error"
LoginFailed == Has(calls, "login") /\ ~Ok(LoginStatus)
\* process_response has looked at a response that is no success
SearchFailed ==
    /\ response_obj # NoResponse /\ ~Ok(SearchStatus)
    /\ pc # "process_response"
    /\ ByHotelEngine \/ calls = <<>>

\* C15: login is invoked only after validation returned success, search only
\* after login returned 200/201, the pricing converter only after search
\* returned 200/201; each stage is invoked at most once, in pipeline order;
\* a validation failure or a non-success status of login or search ends the
\* request with the one error of the failing stage (InvalidHotelRequestError,
\* InvalidHotelResponseError for login_api, InvalidHotelResponseError for
\* search_hotel) and no later stage is invoked.
C15_DispatcherOrdering ==
    /\ ConsecutiveStages(calls)
    /\ (ByHotelEngine /\ Has(calls, "login")) =>
           result # NoResult /\ result.status = "success"
    /\ Has(calls, "search") => Ok(LoginStatus)
    /\ Has(calls, "convert") => Ok(SearchStatus)
    /\ (ValidationFailed /\ pc # "returned") =>
           /\ pc = "raised" /\ outcome = "InvalidHotelRequestError"
           /\ exc = [type |-> "InvalidHotelRequestError", at |-> "search_hotel"]
           /\ calls = <<"validate">>
    /\ LoginFailed =>
           /\ pc = "raised" /\ outcome = "InvalidHotelResponseError"
           /\ exc = [type |-> "InvalidHotelResponseError", at |-> "login_api"]
           /\ LastStage = "login"
    /\ SearchFailed =>
           /\ pc = "raised" /\ outcome = "InvalidHotelResponseError"
           /\ exc = [type |-> "InvalidHotelResponseError", at |-> "search_hotel"]
           /\ ~Has(calls, "convert")

\* C15 witness: a run of HotelEngine.process that went through the four
\* stages in order, each once, and returned the converted response
C15_Witness ==
    /\ ByHotelEngine
    /\ calls = Stages
    /\ result.status = "success" /\ Ok(LoginStatus) /\ Ok(SearchStatus)
    /\ pc = "done" /\ outcome = "returned"

\* a login answered 400: the request ended there
C15_LoginFailure == LoginFailed /\ pc = "raised"

\* a search answered 400 or 500: the request ended there
C15_SearchFailure == SearchFailed /\ pc = "raised"

\* a validation failure ended the request before the login
C15_ValidationFailure == ValidationFailed /\ pc = "raised"

\* ---- C16 ---------------------------------------------------------------
\* what the texts drawn coerce to: booleans, integers, floats, text
Coerced ==
    (" 7 " :> Integer(7)) @@ ("7" :> Integer(7)) @@ ("True" :> Bool(TRUE))
    @@ ("true" :> Bool(TRUE)) @@ ("false" :> Bool(FALSE)) @@ ("abc" :> Str("abc"))
    @@ ("1.5" :> Float(15))

NonBlank(text) == text \notin {None, "", "  "}

ChildElements(element) ==
    LET NotCommentOrInstruction(node) == node.kind \notin {"comment", "pi"}
    IN  SelectSeq(element.children, NotCommentOrInstruction)

\* the child elements of the tag, in document order
RECURSIVE Occurrences(_, _)
Occurrences(children, tag) ==
    IF children = <<>> THEN <<>>
    ELSE (IF Head(children).tag = tag THEN <<Head(children)>> ELSE <<>>)
         \o Occurrences(Tail(children), tag)

\* every attribute is an entry keyed by @ + its name, with its coerced value
AttributesMapped(element, items) ==
    \A attr \in DOMAIN element.attrib :
        /\ ("@" \o attr) \in DOMAIN items
        /\ items["@" \o attr] = Coerced[element.attrib[attr]]

AttributeKeys(element) == {"@" \o attr : attr \in DOMAIN element.attrib}

RECURSIVE ShapeOK(_, _)
ShapeOK(element, value) ==
    LET children == ChildElements(element)
        tags == {children[i].tag : i \in 1..Len(children)}
    IN  IF children = <<>>
        THEN IF NonBlank(element.text)
             THEN value = Coerced[element.text]
             ELSE /\ value.kind = "dict"
                  /\ DOMAIN value.items = AttributeKeys(element)
                  /\ AttributesMapped(element, value.items)
        ELSE /\ value.kind = "dict"
             /\ DOMAIN value.items = AttributeKeys(element) \cup tags
             /\ AttributesMapped(element, value.items)
             /\ \A tag \in tags :
                    LET occurrences == Occurrences(children, tag)
                        entry == value.items[tag]
                    IN  IF Len(occurrences) = 1
                        THEN entry.kind # "list" /\ ShapeOK(occurrences[1], entry)
                        ELSE /\ entry.kind = "list"
                             /\ Len(entry.elements) = Len(occurrences)
                             /\ \A j \in 1..Len(occurrences) :
                                    ShapeOK(occurrences[j], entry.elements[j])

\* C16: in the mapped structure, for every element with child elements a
\* child tag occurring once is a single nested entry, a child tag occurring
\* more than once is a sequence of as many entries as occurrences, in
\* document order, every attribute is an entry keyed by @ + its name, and
\* comments and processing instructions contribute nothing; an element with
\* no child element maps to its coerced non-blank text, or to its attribute
\* mapping (possibly empty) when it has no non-blank text.
C16_MapperShape ==
    pc = "mapped" =>
        /\ ShapeOK(root, data)
        /\ result = ("status" :> "success") @@ ("data" :> data)

\* C16 witness: under root, m occurs twice and a once; the first m has two
\* a children around a comment, the second one b: root maps to @id, a list
\* of two m and the float a; the first m to a list of the integer 7 and the
\* attribute mapping of the second a
C16_Witness ==
    /\ pc = "mapped"
    /\ root.tag = "root"
    /\ Len(root.children) = 3
    /\ root.children[1].kind = "element" /\ root.children[1].tag = "m"
    /\ Len(root.children[1].children) = 3
    /\ root.children[2].kind = "element" /\ root.children[2].tag = "m"
    /\ Len(root.children[2].children) = 1
    /\ root.children[3].kind = "element" /\ root.children[3].tag = "a"
    /\ data = Dict(("@id" :> Integer(7))
                   @@ ("m" :> List(<<Dict("a" :> List(<<Integer(7), Dict("@id" :> Integer(7))>>)),
                                     Dict(("@id" :> Integer(7)) @@ ("b" :> Bool(TRUE)))>>))
                   @@ ("a" :> Float(15)))

====
